---- MODULE Spec2Model ----
(***************************************************************************)
(* Model of the midas-rs client: the response envelope (response.rs), the  *)
(* typed decoder ApiResponse::from_response, and the operations of         *)
(* Trading (trading.rs) and Historical (historical.rs) that consume a      *)
(* response either as one buffered body or as a stream of chunks.          *)
(*                                                                         *)
(* Bytes on the wire are modelled as a sequence of lexical units: a        *)
(* complete JSON object ("doc"), the first or second half of one ("head",  *)
(* "tail"), a complete JSON array ("array"), any other JSON value          *)
(* ("scalar"), or bytes that are no JSON at all ("raw").  Concatenating    *)
(* byte strings is \o.                                                     *)
(***************************************************************************)
EXTENDS Integers, Sequences, FiniteSets, TLC

\* ------------------------------------------------------------------ bounds
\* Longest chunk sequence a response delivers.
MaxChunks == 3

\* --------------------------------------------------------------- JSON text
\* A JSON value: t is its kind ("absent" stands for a key the object lacks),
\* s the text of a string, n the value of a number or the length of an array.
JV(t, s, n) == [t |-> t, s |-> s, n |-> n]
JAbsent == JV("absent", "", 0)
JNull == JV("null", "", 0)
JStr(s) == JV("str", s, 0)
JNum(n) == JV("num", "", n)
JArr(n) == JV("arr", "", n)

\* A JSON object as far as the envelope reads it: its four keys.  Other keys
\* are ignored by the derived deserializers and are left out.
JObj(st, msg, code, data) == [status |-> st, message |-> msg, code |-> code, data |-> data]
NoObj == JObj(JAbsent, JAbsent, JAbsent, JAbsent)

\* Lexical units of a byte string.
Unit(k, obj, b) == [k |-> k, obj |-> obj, b |-> b]
Doc(obj) == Unit("doc", obj, 0)
HeadOf(obj) == Unit("head", obj, 0)
TailOf(obj) == Unit("tail", obj, 0)
\* A JSON array [status, message, code, data], shorter when the later
\* elements are absent: serde_json reads a struct from an array by position.
Arr(obj) == Unit("array", obj, 0)
Scalar == Unit("scalar", NoObj, 0)
Raw(b) == Unit("raw", NoObj, b)

\* A byte that is not valid UTF-8, and the replacement character U+FFFD.
InvalidByte == 255
ReplacementChar == 65533

\* ------------------------------------------------------------ typed values
\* A value of a payload type T.  ty is the Rust type; some tells Some from
\* None for the Option types; s, n, b hold a String, a number (or the length
\* of a Vec) and a byte buffer.
DV(ty, some, s, n, b) == [ty |-> ty, some |-> some, s |-> s, n |-> n, b |-> b]
DString(s) == DV("String", FALSE, s, 0, <<>>)
DI32(n) == DV("i32", FALSE, "", n, <<>>)
DU32(n) == DV("u32", FALSE, "", n, <<>>)
DVec(n) == DV("Vec", FALSE, "", n, <<>>)
DNone == DV("Option", FALSE, "", 0, <<>>)
DSome(n) == DV("Option", TRUE, "", n, <<>>)
DUnit == DV("unit", FALSE, "", 0, <<>>)
DSomeBytes(b) == DV("OptionBytes", TRUE, "", 0, b)

\* The payload types that implement ApiDefault (Option is Option<i32>).
ApiDefaultTypes == {"i32", "u32", "String", "Vec", "Option"}

\* Mutant of default_value: an Option's default is Some(0).
default_value_SomeZero(T) ==
    CASE T = "i32" -> DI32(0)
      [] T = "u32" -> DU32(0)
      [] T = "String" -> DString("")
      [] T = "Vec" -> DVec(0)
      [] T = "Option" -> DSome(0)

\* ApiDefault::default_value for each implementing type.
default_value(T) ==
    CASE T = "i32" -> DI32(0)
      [] T = "u32" -> DU32(0)
      [] T = "String" -> DString("")
      [] T = "Vec" -> DVec(0)
      [] T = "Option" -> DNone

\* ApiResponse<T>
ApiResponse(status, message, code, data) ==
    [status |-> status, message |-> message, code |-> code, data |-> data]
NoResponse == ApiResponse("", "", 0, DUnit)

\* StatusCode::as_u16 of the two reqwest status constants the code names.
OK == 200
NOT_FOUND == 404
\* A reqwest::StatusCode, which wraps the number, and StatusCode::as_u16.
StatusCode(n) == [u16 |-> n]
as_u16(code) == code.u16

\* Mutant of new: the code is always that of StatusCode::OK.
new_AlwaysOK(status, message, code, data) == ApiResponse(status, message, OK, data)

\* ApiResponse::new: code.as_u16(), the other arguments as given.
new(status, message, code, data) == ApiResponse(status, message, as_u16(code), data)

\* ApiResponse::with_default
with_default(T, status, message, code) ==
    ApiResponse(status, message, code, default_value(T))

\* crate::Result<V>
Ok(v) == [kind |-> "Ok", val |-> v, err |-> ""]
Err(e) == [kind |-> "Err", val |-> NoResponse, err |-> e]
\* A value returned as it is, by a function that cannot fail.
Value(v) == [kind |-> "Value", val |-> v, err |-> ""]
\* Result<()>: Ok(()) carries no envelope.
OkUnit == [kind |-> "OkUnit", val |-> NoResponse, err |-> ""]
Pending == [kind |-> "none", val |-> NoResponse, err |-> ""]

\* --------------------------------------------------------------- serialize
\* serde's Serialize for the payload types.
SerData(d) ==
    CASE d.ty = "String" -> JStr(d.s)
      [] d.ty \in {"i32", "u32"} -> JNum(d.n)
      [] d.ty = "Vec" -> JArr(d.n)
      [] d.ty = "Option" -> IF d.some THEN JNum(d.n) ELSE JNull
      [] d.ty = "unit" -> JNull

\* #[derive(Serialize)] of ApiResponse<T> followed by to_string().
to_string(e) ==
    <<Doc(JObj(JStr(e.status), JStr(e.message), JNum(e.code), SerData(e.data)))>>

\* ------------------------------------------------------------- deserialize
DeOk(v) == [ok |-> TRUE, v |-> v]
DeFail == [ok |-> FALSE, v |-> DUnit]

\* serde's Deserialize of the field data: T.  A missing key is an error for
\* every type but Option, which reads it as None.
DeData(T, j) ==
    CASE T = "String" -> IF j.t = "str" THEN DeOk(DString(j.s)) ELSE DeFail
      [] T = "i32" ->
           IF j.t = "num" /\ j.n \in (-2147483647 - 1)..2147483647
           THEN DeOk(DI32(j.n)) ELSE DeFail
      [] T = "u32" -> IF j.t = "num" /\ j.n >= 0 THEN DeOk(DU32(j.n)) ELSE DeFail
      [] T = "Vec" -> IF j.t = "arr" THEN DeOk(DVec(j.n)) ELSE DeFail
      [] T = "Option" ->
           IF j.t \in {"absent", "null"} THEN DeOk(DNone)
           ELSE IF j.t = "num" /\ j.n \in (-2147483647 - 1)..2147483647
           THEN DeOk(DSome(j.n)) ELSE DeFail
      [] T = "unit" -> IF j.t = "null" THEN DeOk(DUnit) ELSE DeFail

\* status: String, message: String, code: u16 of both envelope structs.
DeHeader(obj) ==
    /\ obj.status.t = "str"
    /\ obj.message.t = "str"
    /\ obj.code.t = "num"
    /\ obj.code.n \in 0..65535

\* Adjacent halves of one object make that object again.
RECURSIVE Join(_)
Join(text) ==
    IF Len(text) < 2 THEN text
    ELSE IF text[1].k = "head" /\ text[2].k = "tail" /\ text[1].obj = text[2].obj
    THEN <<Doc(text[1].obj)>> \o Join(SubSeq(text, 3, Len(text)))
    ELSE <<text[1]>> \o Join(Tail(text))

\* The JSON object or array a text consists of, if it is exactly one.
\* Anything after the first value is serde_json's "trailing characters".
IsOneObject(text) == Len(Join(text)) = 1 /\ Join(text)[1].k \in {"doc", "array"}
TheObject(text) == Join(text)[1].obj

\* The four fields of ApiResponse<T>.  From an array all four elements must
\* be there, also for Option.
StrictOk(T, u) ==
    /\ DeHeader(u.obj)
    /\ DeData(T, u.obj.data).ok
    /\ (u.k = "array" => u.obj.data.t # "absent")

\* The three fields of RawApiResponse.  In an object the data key is
\* ignored; an array must end after the third element.
RawOk(u) == DeHeader(u.obj) /\ (u.k = "array" => u.obj.data.t = "absent")

\* serde_json::from_str::<ApiResponse<T>>
from_str_ApiResponse(T, text) ==
    IF IsOneObject(text) /\ StrictOk(T, Join(text)[1])
    THEN LET o == TheObject(text)
         IN Ok(ApiResponse(o.status.s, o.message.s, o.code.n, DeData(T, o.data).v))
    ELSE Err("JsonError")

\* Mutant of from_str_RawApiResponse: a missing or mistyped status, message
\* or code is defaulted instead of being an error.
from_str_RawApiResponse_Lenient(T, text) ==
    IF IsOneObject(text)
    THEN LET o == TheObject(text)
         IN Ok(with_default(T, o.status.s, o.message.s, o.code.n))
    ELSE Err("JsonError")

\* Mutant of from_str_RawApiResponse: a body that says "success" is never
\* given default data.
from_str_RawApiResponse_FailedOnly(T, text) ==
    IF IsOneObject(text) /\ RawOk(Join(text)[1]) /\ TheObject(text).status.s # "success"
    THEN LET o == TheObject(text)
         IN Ok(with_default(T, o.status.s, o.message.s, o.code.n))
    ELSE Err("JsonError")

\* serde_json::from_str::<RawApiResponse> followed by RawApiResponse::into
from_str_RawApiResponse(T, text) ==
    IF IsOneObject(text) /\ RawOk(Join(text)[1])
    THEN LET o == TheObject(text)
         IN Ok(with_default(T, o.status.s, o.message.s, o.code.n))
    ELSE Err("JsonError")

\* String::from_utf8_lossy: invalid bytes become U+FFFD.
from_utf8_lossy(bytes) ==
    [i \in 1..Len(bytes) |->
        IF bytes[i].k = "raw" /\ bytes[i].b = InvalidByte
        THEN Raw(ReplacementChar) ELSE bytes[i]]

\* ---------------------------------------------------------------- response
\* What the transport delivers for a response body: a sequence of chunk
\* events, each Ok(bytes) or Err(reqwest::Error).
Chunk(bytes) == [ok |-> TRUE, bytes |-> bytes]
TransportError == [ok |-> FALSE, bytes |-> <<>>]

RECURSIVE Concat(_)
Concat(cs) == IF cs = <<>> THEN <<>> ELSE cs[1].bytes \o Concat(Tail(cs))

\* Response::text: the complete body, decoded lossily, or the transport's
\* error if any chunk of it cannot be read.
text(cs) ==
    IF \E i \in 1..Len(cs) : ~cs[i].ok
    THEN [ok |-> FALSE, body |-> <<>>]
    ELSE [ok |-> TRUE, body |-> from_utf8_lossy(Concat(cs))]

\* Mutant of from_response: the strict decode is skipped, so the data is
\* always the default.
from_response_RawOnly(T, cs) ==
    LET r == text(cs)
    IN IF ~r.ok THEN Err("RequestError") ELSE from_str_RawApiResponse(T, r.body)

\* Mutant of from_response: no fallback after the strict decode fails.
from_response_StrictOnly(T, cs) ==
    LET r == text(cs)
    IN IF ~r.ok THEN Err("RequestError") ELSE from_str_ApiResponse(T, r.body)

\* ApiResponse::<T>::from_response
from_response(T, cs) ==
    LET r == text(cs)
    IN IF ~r.ok THEN Err("RequestError")
       ELSE IF from_str_ApiResponse(T, r.body).kind = "Ok"
       THEN from_str_ApiResponse(T, r.body)
       ELSE from_str_RawApiResponse(T, r.body)

\* The Historical single-shot calls: .text().await? and then
\* serde_json::from_str::<ApiResponse<T>>(&response)?
strict_response(T, cs) ==
    LET r == text(cs)
    IN IF ~r.ok THEN Err("RequestError") ELSE from_str_ApiResponse(T, r.body)

\* -------------------------------------------------------------- operations
\* Trading calls that hand the response to from_response on either HTTP status.
TradingOps ==
    {"create_live", "list_live", "delete_live", "get_live",
     "list_backtest", "delete_backtest", "get_backtest"}
\* Historical calls that decode the body with serde_json::from_str alone.
HistoricalOps ==
    {"create_symbol", "get_symbol", "delete_symbol", "list_symbols",
     "update_symbol", "create_mbp"}
StreamOps == {"create_backtest", "get_records", "create_mbp_from_file"}

\* The payload type T of each call's ApiResponse<T>.
PayloadType(o) ==
    CASE o \in {"create_live"} -> "i32"
      [] o \in {"list_live", "get_live", "list_backtest", "get_backtest", "list_symbols"} -> "Vec"
      [] o \in {"delete_live", "delete_backtest", "create_backtest"} -> "String"
      [] o \in {"create_symbol", "get_symbol"} -> "u32"
      [] o \in {"delete_symbol", "update_symbol", "create_mbp"} -> "unit"
      [] o \in {"get_records"} -> "OptionBytes"
      [] o \in {"create_mbp_from_file"} -> "unit"

\* Mutant of AfterSend: create_backtest reads the chunk stream whatever the
\* HTTP status.
AfterSend_AlwaysStream(o, sc) ==
    IF o \in StreamOps THEN "reading" ELSE "text"

\* Where the call waits once send() has returned a response.
AfterSend(o, sc) ==
    IF o = "create_backtest" THEN (IF sc # OK THEN "text" ELSE "reading")
    ELSE IF o \in StreamOps THEN "reading"
    ELSE "text"

\* Mutant of BacktestOnChunk: a fragment whose status is not "success" is
\* recorded like any other and the loop goes on.
BacktestOnChunk_NoFailFast(last, chunk) ==
    IF ~chunk.ok
    THEN [pc |-> "done", ret |-> Err("RequestError"), last |-> last]
    ELSE LET r == from_str_ApiResponse("String", from_utf8_lossy(chunk.bytes))
         IN IF r.kind = "Ok"
            THEN [pc |-> "reading", ret |-> Pending,
                  last |-> IF last = <<>> THEN Append(last, r.val)
                           ELSE [last EXCEPT ![1] = r.val]]
            ELSE [pc |-> "done", ret |-> Err("JsonError"), last |-> last]

\* Mutant of BacktestOnChunk: the first success fragment is kept, later ones
\* do not replace it.
BacktestOnChunk_KeepFirst(last, chunk) ==
    IF ~chunk.ok
    THEN [pc |-> "done", ret |-> Err("RequestError"), last |-> last]
    ELSE LET r == from_str_ApiResponse("String", from_utf8_lossy(chunk.bytes))
         IN IF r.kind = "Ok"
            THEN IF r.val.status # "success"
                 THEN [pc |-> "done", ret |-> Ok(r.val), last |-> last]
                 ELSE [pc |-> "reading", ret |-> Pending,
                       last |-> IF last = <<>> THEN Append(last, r.val) ELSE last]
            ELSE [pc |-> "done", ret |-> Err("JsonError"), last |-> last]

\* Mutant of BacktestOnChunk: a chunk that does not decode is skipped.
BacktestOnChunk_SkipMalformed(last, chunk) ==
    IF ~chunk.ok
    THEN [pc |-> "done", ret |-> Err("RequestError"), last |-> last]
    ELSE LET r == from_str_ApiResponse("String", from_utf8_lossy(chunk.bytes))
         IN IF r.kind = "Ok"
            THEN IF r.val.status # "success"
                 THEN [pc |-> "done", ret |-> Ok(r.val), last |-> last]
                 ELSE [pc |-> "reading", ret |-> Pending,
                       last |-> IF last = <<>> THEN Append(last, r.val)
                                ELSE [last EXCEPT ![1] = r.val]]
            ELSE [pc |-> "reading", ret |-> Pending, last |-> last]

\* Mutant of BacktestOnChunk: every success fragment is pushed onto
\* last_response.
BacktestOnChunk_PushEach(last, chunk) ==
    IF ~chunk.ok
    THEN [pc |-> "done", ret |-> Err("RequestError"), last |-> last]
    ELSE LET r == from_str_ApiResponse("String", from_utf8_lossy(chunk.bytes))
         IN IF r.kind = "Ok"
            THEN IF r.val.status # "success"
                 THEN [pc |-> "done", ret |-> Ok(r.val), last |-> last]
                 ELSE [pc |-> "reading", ret |-> Pending, last |-> Append(last, r.val)]
            ELSE [pc |-> "done", ret |-> Err("JsonError"), last |-> last]

\* Mutant of BacktestOnChunk: a chunk that fails the strict decode is decoded
\* again without its data, as from_response does.
BacktestOnChunk_RawFallback(last, chunk) ==
    IF ~chunk.ok
    THEN [pc |-> "done", ret |-> Err("RequestError"), last |-> last]
    ELSE LET s == from_str_ApiResponse("String", from_utf8_lossy(chunk.bytes))
             r == IF s.kind = "Ok" THEN s
                  ELSE from_str_RawApiResponse("String", from_utf8_lossy(chunk.bytes))
         IN IF r.kind = "Ok"
            THEN IF r.val.status # "success"
                 THEN [pc |-> "done", ret |-> Ok(r.val), last |-> last]
                 ELSE [pc |-> "reading", ret |-> Pending,
                       last |-> IF last = <<>> THEN Append(last, r.val)
                                ELSE [last EXCEPT ![1] = r.val]]
            ELSE [pc |-> "done", ret |-> Err("JsonError"), last |-> last]

\* Mutant of BacktestOnChunk: of a chunk that holds several JSON documents
\* the first is decoded and the rest ignored.
BacktestOnChunk_FirstDocument(last, chunk) ==
    IF ~chunk.ok
    THEN [pc |-> "done", ret |-> Err("RequestError"), last |-> last]
    ELSE LET r == from_str_ApiResponse("String",
                      from_utf8_lossy(SubSeq(chunk.bytes, 1, IF Len(chunk.bytes) > 1 THEN 1 ELSE Len(chunk.bytes))))
         IN IF r.kind = "Ok"
            THEN IF r.val.status # "success"
                 THEN [pc |-> "done", ret |-> Ok(r.val), last |-> last]
                 ELSE [pc |-> "reading", ret |-> Pending,
                       last |-> IF last = <<>> THEN Append(last, r.val)
                                ELSE [last EXCEPT ![1] = r.val]]
            ELSE [pc |-> "done", ret |-> Err("JsonError"), last |-> last]

\* One turn of create_backtest's loop on the chunk the stream delivered:
\* the position after it, the value returned (if it returns), and
\* last_response.
BacktestOnChunk(last, chunk) ==
    IF ~chunk.ok
    THEN [pc |-> "done", ret |-> Err("RequestError"), last |-> last]
    ELSE LET r == from_str_ApiResponse("String", from_utf8_lossy(chunk.bytes))
         IN IF r.kind = "Ok"
            THEN IF r.val.status # "success"
                 THEN [pc |-> "done", ret |-> Ok(r.val), last |-> last]
                 ELSE [pc |-> "reading", ret |-> Pending,
                       last |-> IF last = <<>> THEN Append(last, r.val)
                                ELSE [last EXCEPT ![1] = r.val]]
            ELSE [pc |-> "done", ret |-> Err("JsonError"), last |-> last]

\* Mutant of BacktestOnEnd: an empty stream yields an empty success.
BacktestOnEnd_EmptySuccess(last) ==
    IF Len(last) > 0
    THEN Ok(last[1])
    ELSE Ok(new("success", "", StatusCode(OK), DString("")))

\* create_backtest once the stream has ended.
BacktestOnEnd(last) ==
    IF Len(last) > 0
    THEN Ok(last[1])
    ELSE Ok(new("failed", "No valid response recieved.", StatusCode(NOT_FOUND), DString("")))

\* Mutant of RecordsOnChunk: a chunk the transport failed to read is skipped.
RecordsOnChunk_IgnoreError(buf, chunk) ==
    IF chunk.ok
    THEN [pc |-> "reading", ret |-> Pending, data |-> buf \o chunk.bytes]
    ELSE [pc |-> "reading", ret |-> Pending, data |-> buf]

\* Mutant of RecordsOnChunk: on a transport error what has been read so far
\* is returned as the download.
RecordsOnChunk_PartialOk(buf, chunk) ==
    IF chunk.ok
    THEN [pc |-> "reading", ret |-> Pending, data |-> buf \o chunk.bytes]
    ELSE [pc |-> "done", ret |-> Ok(new("success", "", StatusCode(OK), DSomeBytes(buf))), data |-> buf]

\* Mutant of RecordsOnChunk: each chunk is put in front of the buffer.
RecordsOnChunk_Prepend(buf, chunk) ==
    IF chunk.ok
    THEN [pc |-> "reading", ret |-> Pending, data |-> chunk.bytes \o buf]
    ELSE [pc |-> "done", ret |-> Err("RequestError"), data |-> buf]

\* One turn of get_records' loop: the position, the return value, the buffer.
RecordsOnChunk(buf, chunk) ==
    IF chunk.ok
    THEN [pc |-> "reading", ret |-> Pending, data |-> buf \o chunk.bytes]
    ELSE [pc |-> "done", ret |-> Err("RequestError"), data |-> buf]

\* Mutant of RecordsOnEnd: a buffer that is a failed envelope is returned as
\* that envelope.
RecordsOnEnd_DecodeFailure(buf) ==
    LET r == from_str_ApiResponse("String", from_utf8_lossy(buf))
    IN IF r.kind = "Ok" /\ r.val.status = "failed"
       THEN Ok(ApiResponse(r.val.status, r.val.message, r.val.code, DSomeBytes(<<>>)))
       ELSE Ok(new("success", "", StatusCode(OK), DSomeBytes(buf)))

\* Mutant of RecordsOnEnd: an empty download is a failure, as an empty
\* stream is for create_backtest.
RecordsOnEnd_EmptyFails(buf) ==
    IF buf = <<>>
    THEN Ok(new("failed", "No valid response recieved.", StatusCode(NOT_FOUND), DSomeBytes(buf)))
    ELSE Ok(new("success", "", StatusCode(OK), DSomeBytes(buf)))

\* get_records once the stream has ended.
RecordsOnEnd(buf) == Ok(new("success", "", StatusCode(OK), DSomeBytes(buf)))

\* One turn of create_mbp_from_file's loop: the position, the return value,
\* what has been printed.
MbpFileOnChunk(out, chunk) ==
    IF chunk.ok
    THEN [pc |-> "reading", ret |-> Pending,
          stdout |-> Append(out, from_utf8_lossy(chunk.bytes))]
    ELSE [pc |-> "done", ret |-> Err("RequestError"), stdout |-> out]

\* create_mbp_from_file once the stream has ended.
MbpFileOnEnd == OkUnit

\* ------------------------------------------------------------------- files
\* The file at a path: whether it exists, its content, and the operations
\* done on it since the call began.
File(exists, content, log) == [exists |-> exists, content |-> content, log |-> log]
NoFile == File(FALSE, <<>>, <<>>)
\* File::create: the file exists and is empty.
create(f) == File(TRUE, <<>>, Append(f.log, "create"))
\* file.write_all(buf) that wrote the first n bytes.
write(f, buf, n) == File(TRUE, f.content \o SubSeq(buf, 1, n), Append(f.log, "write"))
\* What the file system does to a call: nothing wrong, File::create fails,
\* or write_all fails after n bytes.
IoOutcomes(buf) ==
    {[create |-> TRUE, written |-> Len(buf)], [create |-> FALSE, written |-> 0]}
    \cup {[create |-> TRUE, written |-> n] : n \in 0..(Len(buf) - 1)}

\* Mutant of ToFileOnChunk: the file is created before the download is
\* known to be whole.
ToFileOnChunk_CreateFirst(buf, f, chunk) ==
    IF chunk.ok
    THEN [pc |-> "reading", ret |-> Pending, data |-> buf \o chunk.bytes, file |-> f]
    ELSE [pc |-> "done", ret |-> Err("RequestError"), data |-> buf, file |-> create(f)]

\* One turn of the loop of the get_records that get_records_to_file calls:
\* an error is passed on by the ? before the file is touched.
ToFileOnChunk(buf, f, chunk) ==
    LET step == RecordsOnChunk(buf, chunk)
    IN [pc |-> step.pc, ret |-> step.ret, data |-> step.data, file |-> f]

\* get_records_to_file once get_records has returned Ok: File::create(...)?,
\* then write_all(...)? of response.data, then Ok(()).
ToFileOnEnd(buf, f, io) ==
    LET response == RecordsOnEnd(buf).val
    IN IF ~io.create THEN [ret |-> Err("IOError"), file |-> f]
       ELSE IF ~response.data.some THEN [ret |-> Err("IOError"), file |-> create(f)]
       ELSE IF io.written < Len(response.data.b)
       THEN [ret |-> Err("IOError"), file |-> write(create(f), response.data.b, io.written)]
       ELSE [ret |-> OkUnit, file |-> write(create(f), response.data.b, Len(response.data.b))]

\* ------------------------------------------------------------------- dates
\* A date string is its characters in order; all of them here are ASCII, so
\* str::len counts them.
Digits == <<"0", "1", "2", "3", "4", "5", "6", "7", "8", "9">>
IsDigit(c) == \E i \in 1..10 : Digits[i] = c
DigitValue(c) == (CHOOSE i \in 1..10 : Digits[i] = c) - 1
\* The number written by a run of digits.
RECURSIVE NumberOf(_)
NumberOf(ds) ==
    IF ds = <<>> THEN 0
    ELSE 10 * NumberOf(SubSeq(ds, 1, Len(ds) - 1)) + DigitValue(ds[Len(ds)])
\* How many digits a string starts with, up to max.
RECURSIVE LeadingDigits(_, _)
LeadingDigits(str, max) ==
    IF max = 0 \/ str = <<>> \/ ~IsDigit(Head(str)) THEN 0
    ELSE 1 + LeadingDigits(Tail(str), max - 1)

\* chrono's parse of a string of digits and punctuation against a format:
\* %Y takes one to four digits, %m %d %H %M %S one or two, a literal of the
\* format must be the next character, and nothing may be left over.
NumericItems == {"%Y", "%m", "%d", "%H", "%M", "%S"}
MaxWidth(item) == IF item = "%Y" THEN 4 ELSE 2
NoFields == [i \in NumericItems |-> 0]
ParseFail == [ok |-> FALSE, f |-> NoFields]
RECURSIVE Parse(_, _, _)
Parse(str, fmt, f) ==
    IF fmt = <<>> THEN (IF str = <<>> THEN [ok |-> TRUE, f |-> f] ELSE ParseFail)
    ELSE IF Head(fmt) \in NumericItems
    THEN LET k == LeadingDigits(str, MaxWidth(Head(fmt)))
         IN IF k = 0 THEN ParseFail
            ELSE Parse(SubSeq(str, k + 1, Len(str)), Tail(fmt),
                       [f EXCEPT ![Head(fmt)] = NumberOf(SubSeq(str, 1, k))])
    ELSE IF str # <<>> /\ Head(str) = Head(fmt)
         THEN Parse(Tail(str), Tail(fmt), f)
         ELSE ParseFail

\* The Gregorian calendar, as NaiveDate checks a year, month and day.
IsLeapYear(y) == (y % 4 = 0 /\ y % 100 # 0) \/ y % 400 = 0
DaysInMonth(y, m) ==
    IF m = 2 THEN (IF IsLeapYear(y) THEN 29 ELSE 28)
    ELSE IF m \in {4, 6, 9, 11} THEN 30 ELSE 31
ValidDate(f) == f["%m"] \in 1..12 /\ f["%d"] \in 1..DaysInMonth(f["%Y"], f["%m"])
\* A parsed second of 60 is a leap second.
ValidTime(f) == f["%H"] <= 23 /\ f["%M"] <= 59 /\ f["%S"] <= 60

\* NaiveDate::parse_from_str(date_str, "%Y-%m-%d")
DateFormat == <<"%Y", "-", "%m", "-", "%d">>
NaiveDate_parse_from_str(str) ==
    LET p == Parse(str, DateFormat, NoFields)
    IN IF p.ok /\ ValidDate(p.f) THEN p ELSE ParseFail
\* NaiveDateTime::parse_from_str(date_str, "%Y-%m-%d %H:%M:%S")
DateTimeFormat == <<"%Y", "-", "%m", "-", "%d", " ", "%H", ":", "%M", ":", "%S">>
NaiveDateTime_parse_from_str(str) ==
    LET p == Parse(str, DateTimeFormat, NoFields)
    IN IF p.ok /\ ValidDate(p.f) /\ ValidTime(p.f) THEN p ELSE ParseFail

\* NaiveDate::and_hms_opt: the date with a time of day.
and_hms_opt(date, h, m, sec) ==
    [ok |-> TRUE, f |-> [date.f EXCEPT !["%H"] = h, !["%M"] = m, !["%S"] = sec]]

\* Mutant of days_from_civil: the Julian calendar, every fourth year a leap
\* year.
days_from_civil_Julian(y, m, d) ==
    LET yy == IF m <= 2 THEN y - 1 ELSE y
        era == yy \div 400
        yoe == yy - era * 400
        doy == (153 * (IF m > 2 THEN m - 3 ELSE m + 9) + 2) \div 5 + d - 1
        doe == yoe * 365 + yoe \div 4 + doy
    IN era * 146097 + doe - 719468

\* The days from 1970-01-01 to a date of the proleptic Gregorian calendar,
\* by 400-year cycles; the year runs from March.
days_from_civil(y, m, d) ==
    LET yy == IF m <= 2 THEN y - 1 ELSE y
        era == yy \div 400
        yoe == yy - era * 400
        doy == (153 * (IF m > 2 THEN m - 3 ELSE m + 9) + 2) \div 5 + d - 1
        doe == yoe * 365 + yoe \div 4 - yoe \div 100 + doy
    IN era * 146097 + doe - 719468

\* A count of nanoseconds since the epoch, wider than the checker's
\* integers: whole days, seconds of the day, nanoseconds of the second.
Nanos(days, sod, sub) == [days |-> days, sod |-> sod, sub |-> sub]
NanosLeq(a, b) ==
    \/ a.days < b.days
    \/ (a.days = b.days /\ a.sod < b.sod)
    \/ (a.days = b.days /\ a.sod = b.sod /\ a.sub <= b.sub)
\* i64::MIN and i64::MAX nanoseconds: -2^63 and 2^63 - 1.
I64Min == Nanos(-106752, 763, 145224192)
I64Max == Nanos(106751, 85636, 854775807)

\* DateTime::from_naive_utc_and_offset(dt, Utc).timestamp_nanos_opt(): the
\* time of day of a leap second is second 59 with 10^9 more nanoseconds;
\* None when the count does not fit an i64.
timestamp_nanos_opt(dt) ==
    LET f == dt.f
        days == days_from_civil(f["%Y"], f["%m"], f["%d"])
        secs == f["%H"] * 3600 + f["%M"] * 60 + (IF f["%S"] = 60 THEN 59 ELSE f["%S"])
        nano == IF f["%S"] = 60 THEN 1000000000 ELSE 0
        sod == secs + nano \div 1000000000
        n == IF sod >= 86400 THEN Nanos(days + 1, sod - 86400, nano % 1000000000)
             ELSE Nanos(days, sod, nano % 1000000000)
    IN IF NanosLeq(I64Min, n) /\ NanosLeq(n, I64Max)
       THEN [some |-> TRUE, nanos |-> n]
       ELSE [some |-> FALSE, nanos |-> Nanos(0, 0, 0)]

\* A call that panicked returns nothing.
Panic == [kind |-> "Panic", val |-> NoResponse, err |-> ""]

\* utils::date_to_unix_nanos
date_to_unix_nanos(date_str) ==
    LET naive_datetime ==
            IF Len(date_str) = 10
            THEN LET naive_date == NaiveDate_parse_from_str(date_str)
                 IN IF naive_date.ok THEN and_hms_opt(naive_date, 0, 0, 0) ELSE ParseFail
            ELSE NaiveDateTime_parse_from_str(date_str)
    IN IF ~naive_datetime.ok THEN Err("ParseError")
       ELSE LET unix_nanos == timestamp_nanos_opt(naive_datetime)
            IN IF unix_nanos.some THEN Ok(unix_nanos.nanos) ELSE Panic

\* RetrieveParams::new: start and end are converted in that order, each
\* with ?; symbols and schema are stored as given and are left out here.
RetrieveParams_new(start, end) ==
    LET start_ts == date_to_unix_nanos(start)
    IN IF start_ts.kind # "Ok" THEN start_ts
       ELSE LET end_ts == date_to_unix_nanos(end)
            IN IF end_ts.kind # "Ok" THEN end_ts
               ELSE Ok([start_ts |-> start_ts.val, end_ts |-> end_ts.val])

\* ------------------------------------------------------------------ inputs
SeqsUpTo(S, n) == UNION {[1..k -> S] : k \in 0..n}

\* Envelopes of each payload type, and the JSON objects bodies are made of:
\* every encoding of such an envelope, and objects with keys missing,
\* mistyped or out of range.
DataValues(T) ==
    CASE T = "String" -> {DString("d1"), DString("")}
      [] T = "i32" -> {DI32(7), DI32(0), DI32(-1)}
      [] T = "u32" -> {DU32(7), DU32(0)}
      [] T = "Vec" -> {DVec(2), DVec(0)}
      [] T = "Option" -> {DNone, DSome(7), DSome(0), DSome(-1)}
      [] T = "unit" -> {DUnit}
Envelopes(T) ==
    {ApiResponse(st, "m1", c, d) : st \in {"success", "failed"}, c \in {200, 404}, d \in DataValues(T)}
BodyObjects ==
    {JObj(st, msg, c, d) :
        st \in {JStr("success"), JStr("failed"), JAbsent, JNum(1)},
        msg \in {JStr("m1"), JAbsent},
        c \in {JNum(200), JNum(404), JNum(70000), JNum(-1), JStr("200"), JAbsent},
        d \in {JAbsent, JNull, JStr("d1"), JStr(""), JNum(7), JNum(0), JNum(-1), JArr(2), JArr(0)}}

\* Stream fragments of the bulk operations.
FragS1 == ApiResponse("success", "m1", 200, DString("d1"))
FragS2 == ApiResponse("success", "m2", 200, DString("d2"))
FragFailed == ApiResponse("failed", "duplicate", 409, DString(""))
FragOther == ApiResponse("Success", "m1", 200, DString("d1"))
NoDataFailed == JObj(JStr("failed"), JStr("m"), JNum(404), JAbsent)
HalfObject == JObj(JStr("success"), JStr("m1"), JNum(200), JStr("d1"))

\* The bodies of the single-shot calls, as the transport delivers them.
BodyStreams ==
    {<<Chunk(<<Doc(o)>>)>> : o \in BodyObjects}
    \cup {<<>>, <<Chunk(<<Scalar>>)>>, <<Chunk(<<Raw(InvalidByte)>>)>>,
          <<Chunk(<<HeadOf(HalfObject)>>)>>,
          <<Chunk(<<HeadOf(HalfObject)>>), Chunk(<<TailOf(HalfObject)>>)>>,
          <<Chunk(<<Arr(HalfObject)>>)>>, <<Chunk(<<Arr(NoDataFailed)>>)>>,
          <<Chunk(<<Doc(NoDataFailed)>>)>>,
          <<Chunk(<<Arr(JObj(JStr("failed"), JStr("m"), JAbsent, JAbsent))>>)>>,
          <<Chunk(to_string(FragS1) \o to_string(FragS2))>>,
          <<TransportError>>, <<Chunk(to_string(FragS1)), TransportError>>}

\* What one chunk of a streamed response can be.
ChunkAlphabet ==
    {Chunk(to_string(FragS1)), Chunk(to_string(FragS2)), Chunk(to_string(FragFailed)),
     Chunk(to_string(FragOther)), Chunk(<<Doc(NoDataFailed)>>),
     Chunk(<<HeadOf(HalfObject)>>), Chunk(<<TailOf(HalfObject)>>),
     Chunk(to_string(FragS1) \o to_string(FragS2)),
     Chunk(<<Raw(InvalidByte)>>), TransportError}
Streams == SeqsUpTo(ChunkAlphabet, MaxChunks)

\* The calls a caller can make: the operation and its payload type.
\* from_response is public and generic: a caller may hand it a response of
\* its own at any T.
ClientCalls ==
    {<<o, PayloadType(o)>> : o \in TradingOps \cup HistoricalOps \cup StreamOps}
Calls == ClientCalls \cup {<<"from_response", T>> : T \in ApiDefaultTypes}
HttpStatuses == {OK, NOT_FOUND}
\* get_records_to_file: the chunks of a download, and the file that may be
\* at file_path when the call begins.
FileAlphabet == {Chunk(to_string(FragS1)), Chunk(<<Raw(InvalidByte)>>), TransportError}
FileStreams == SeqsUpTo(FileAlphabet, MaxChunks)
InitialFiles == {NoFile, File(TRUE, <<Raw(InvalidByte), Raw(InvalidByte)>>, <<>>)}
\* Date strings: a number zero-padded to a width, dates and times written
\* in the two formats (days and times that do not exist among them), and
\* strings in neither format.
RECURSIVE Pad(_, _)
Pad(n, width) == IF width = 0 THEN <<>> ELSE Pad(n \div 10, width - 1) \o <<Digits[(n % 10) + 1]>>
DateStr(y, m, d) == Pad(y, 4) \o <<"-">> \o Pad(m, 2) \o <<"-">> \o Pad(d, 2)
TimeStr(h, m, sec) == Pad(h, 2) \o <<":">> \o Pad(m, 2) \o <<":">> \o Pad(sec, 2)
YearInputs == {0, 1600, 1677, 1678, 1900, 1970, 1999, 2000, 2021, 2024, 2262, 2263, 9999}
MonthInputs == {0, 1, 2, 3, 4, 9, 11, 12, 13}
DayInputs == {0, 1, 11, 21, 22, 28, 29, 30, 31, 32}
TimeInputs ==
    {<<0, 0, 0>>, <<1, 1, 1>>, <<0, 12, 43>>, <<0, 12, 44>>, <<23, 47, 16>>, <<23, 47, 17>>,
     <<23, 59, 59>>, <<23, 59, 60>>, <<24, 0, 0>>, <<12, 60, 0>>}
DateStrs == {DateStr(y, m, d) : y \in YearInputs, m \in MonthInputs, d \in DayInputs}
OtherStrs ==
    {<<>>,
     <<"2", "0", "2", "1", "/", "1", "1", "/", "0", "1">>,
     <<"n", "o", "t", "-", "a", "-", "d", "a", "t", "e">>,
     DateStr(2021, 11, 1) \o <<"T">> \o TimeStr(1, 1, 1),
     DateStr(2021, 11, 1) \o <<" ">> \o Pad(1, 2) \o <<":">> \o Pad(1, 2),
     DateStr(2021, 11, 1) \o <<" ">> \o TimeStr(1, 1, 1) \o <<"Z">>}
DateInputs ==
    DateStrs
    \cup {ds \o <<" ">> \o TimeStr(t[1], t[2], t[3]) : ds \in DateStrs, t \in TimeInputs}
    \cup OtherStrs

\* The start and end of a RetrieveParams: a date, a date and time, a date
\* before 1677, a date after 2262, and a string that is no date.
ParamDates ==
    {DateStr(2021, 11, 1), DateStr(2021, 11, 1) \o <<" ">> \o TimeStr(1, 1, 1),
     DateStr(1600, 1, 1), DateStr(9999, 12, 31) \o <<" ">> \o TimeStr(23, 59, 59),
     <<"n", "o", "t", "-", "a", "-", "d", "a", "t", "e">>}
\* Arguments of the constructors: any strings, any u16.
StatusArgs == {"success", "failed", "", "Success"}
MessageArgs == {"", "m1"}
CodeArgs == {0, 200, 404, 65535}
StatusCodeArgs == {StatusCode(n) : n \in {100, 200, 404, 999}}
DataArgs ==
    UNION {DataValues(T) : T \in ApiDefaultTypes} \cup {DSomeBytes(<<>>), DSomeBytes(<<Raw(InvalidByte)>>)}

\* ------------------------------------------------------------------- state
VARIABLES
    pc,             \* "idle", "text" (awaiting the body), "reading" (in a stream loop), "done"
    op,             \* the operation called
    ty,             \* its payload type T
    status_code,    \* response.status()
    chunks,         \* the chunk events of the response body, in order
    nread,          \* how many of them stream.next() has delivered
    last_response,  \* create_backtest's Vec<ApiResponse<String>>
    data,           \* get_records' buffer
    stdout,         \* what create_mbp_from_file has printed
    requests,       \* HTTP requests sent
    args,           \* the arguments of a constructor call, in order
    file,           \* the file at get_records_to_file's file_path
    ret             \* the value the call returned

vars == <<pc, op, ty, status_code, chunks, nread, last_response, data, stdout, requests, args, file, ret>>

Init ==
    /\ pc = "idle"
    /\ op = ""
    /\ ty = ""
    /\ status_code = 0
    /\ chunks = <<>>
    /\ nread = 0
    /\ last_response = <<>>
    /\ data = <<>>
    /\ stdout = <<>>
    /\ requests = 0
    /\ args = <<>>
    /\ file = NoFile
    /\ ret = Pending

\* send().await succeeds (or, for from_response, the caller holds a
\* response): the response's status and body are now fixed.
Send ==
    /\ pc = "idle"
    /\ \E c \in Calls, sc \in HttpStatuses :
         /\ op' = c[1]
         /\ ty' = c[2]
         /\ status_code' = sc
         /\ \E cs \in (IF AfterSend(c[1], sc) = "reading" THEN Streams ELSE BodyStreams) :
              chunks' = cs
         /\ pc' = AfterSend(c[1], sc)
    /\ requests' = IF op' = "from_response" THEN requests ELSE requests + 1
    /\ UNCHANGED <<file, args, nread, last_response, data, stdout, ret>>

\* send().await? fails: the call returns the transport's error.
SendFails ==
    /\ pc = "idle"
    /\ \E c \in ClientCalls : op' = c[1] /\ ty' = c[2]
    /\ requests' = requests + 1
    /\ pc' = "done"
    /\ ret' = Err("RequestError")
    /\ UNCHANGED <<file, args, status_code, chunks, nread, last_response, data, stdout>>

\* The Trading calls, create_backtest on a non-200 status, and from_response
\* itself: the result is from_response's.
FromResponse ==
    /\ pc = "text"
    /\ op \in TradingOps \cup {"create_backtest", "from_response"}
    /\ ret' = from_response(ty, chunks)
    /\ pc' = "done"
    /\ UNCHANGED <<file, args, op, ty, status_code, chunks, nread, last_response, data, stdout, requests>>

\* The Historical single-shot calls.
HistoricalCall ==
    /\ pc = "text"
    /\ op \in HistoricalOps
    /\ ret' = strict_response(ty, chunks)
    /\ pc' = "done"
    /\ UNCHANGED <<file, args, op, ty, status_code, chunks, nread, last_response, data, stdout, requests>>

\* create_backtest: stream.next() delivers a chunk.
CreateBacktestChunk ==
    /\ pc = "reading"
    /\ op = "create_backtest"
    /\ nread < Len(chunks)
    /\ LET step == BacktestOnChunk(last_response, chunks[nread + 1])
       IN /\ pc' = step.pc
          /\ ret' = step.ret
          /\ last_response' = step.last
    /\ nread' = nread + 1
    /\ UNCHANGED <<file, args, op, ty, status_code, chunks, data, stdout, requests>>

\* create_backtest: stream.next() delivers None.
CreateBacktestEnd ==
    /\ pc = "reading"
    /\ op = "create_backtest"
    /\ nread = Len(chunks)
    /\ ret' = BacktestOnEnd(last_response)
    /\ pc' = "done"
    /\ UNCHANGED <<file, args, op, ty, status_code, chunks, nread, last_response, data, stdout, requests>>

\* get_records: stream.next() delivers a chunk.
GetRecordsChunk ==
    /\ pc = "reading"
    /\ op = "get_records"
    /\ nread < Len(chunks)
    /\ LET step == RecordsOnChunk(data, chunks[nread + 1])
       IN /\ pc' = step.pc
          /\ ret' = step.ret
          /\ data' = step.data
    /\ nread' = nread + 1
    /\ UNCHANGED <<file, args, op, ty, status_code, chunks, last_response, stdout, requests>>

\* get_records: stream.next() delivers None.
GetRecordsEnd ==
    /\ pc = "reading"
    /\ op = "get_records"
    /\ nread = Len(chunks)
    /\ ret' = RecordsOnEnd(data)
    /\ pc' = "done"
    /\ UNCHANGED <<file, args, op, ty, status_code, chunks, nread, last_response, data, stdout, requests>>

\* create_mbp_from_file: stream.next() delivers a chunk.
CreateMbpFromFileChunk ==
    /\ pc = "reading"
    /\ op = "create_mbp_from_file"
    /\ nread < Len(chunks)
    /\ LET step == MbpFileOnChunk(stdout, chunks[nread + 1])
       IN /\ pc' = step.pc
          /\ ret' = step.ret
          /\ stdout' = step.stdout
    /\ nread' = nread + 1
    /\ UNCHANGED <<file, args, op, ty, status_code, chunks, last_response, data, requests>>

\* create_mbp_from_file: stream.next() delivers None.
CreateMbpFromFileEnd ==
    /\ pc = "reading"
    /\ op = "create_mbp_from_file"
    /\ nread = Len(chunks)
    /\ ret' = MbpFileOnEnd
    /\ pc' = "done"
    /\ UNCHANGED <<file, args, op, ty, status_code, chunks, nread, last_response, data, stdout, requests>>

\* ApiResponse::<T>::with_default(status, message, code)
WithDefaultCall ==
    /\ pc = "idle"
    /\ \E T \in ApiDefaultTypes, st \in StatusArgs, msg \in MessageArgs, c \in CodeArgs :
         /\ op' = "with_default"
         /\ ty' = T
         /\ args' = <<st, msg, c>>
         /\ ret' = Value(with_default(T, st, msg, c))
    /\ pc' = "done"
    /\ UNCHANGED <<file, status_code, chunks, nread, last_response, data, stdout, requests>>

\* ApiResponse::new(status, message, code, data)
NewCall ==
    /\ pc = "idle"
    /\ \E st \in StatusArgs, msg \in MessageArgs, c \in StatusCodeArgs, d \in DataArgs :
         /\ op' = "new"
         /\ ty' = d.ty
         /\ args' = <<st, msg, c, d>>
         /\ ret' = Value(new(st, msg, c, d))
    /\ pc' = "done"
    /\ UNCHANGED <<file, status_code, chunks, nread, last_response, data, stdout, requests>>

\* utils::date_to_unix_nanos(date_str)
DateToUnixNanosCall ==
    /\ pc = "idle"
    /\ \E date_str \in DateInputs :
         /\ args' = <<date_str>>
         /\ ret' = date_to_unix_nanos(date_str)
    /\ op' = "date_to_unix_nanos"
    /\ ty' = "i64"
    /\ pc' = "done"
    /\ UNCHANGED <<file, status_code, chunks, nread, last_response, data, stdout, requests>>

\* get_records_to_file: get_records' send().await succeeds.
SendToFile ==
    /\ pc = "idle"
    /\ op' = "get_records_to_file"
    /\ ty' = "unit"
    /\ \E sc \in HttpStatuses, cs \in FileStreams, f \in InitialFiles :
         /\ status_code' = sc
         /\ chunks' = cs
         /\ file' = f
         /\ args' = <<f>>
    /\ requests' = requests + 1
    /\ pc' = "reading"
    /\ UNCHANGED <<nread, last_response, data, stdout, ret>>

\* get_records_to_file: get_records' send().await? fails.
SendToFileFails ==
    /\ pc = "idle"
    /\ op' = "get_records_to_file"
    /\ ty' = "unit"
    /\ \E f \in InitialFiles : file' = f /\ args' = <<f>>
    /\ requests' = requests + 1
    /\ pc' = "done"
    /\ ret' = Err("RequestError")
    /\ UNCHANGED <<status_code, chunks, nread, last_response, data, stdout>>

\* get_records_to_file: the stream of its get_records delivers a chunk.
GetRecordsToFileChunk ==
    /\ pc = "reading"
    /\ op = "get_records_to_file"
    /\ nread < Len(chunks)
    /\ LET step == ToFileOnChunk(data, file, chunks[nread + 1])
       IN /\ pc' = step.pc
          /\ ret' = step.ret
          /\ data' = step.data
          /\ file' = step.file
    /\ nread' = nread + 1
    /\ UNCHANGED <<args, op, ty, status_code, chunks, last_response, stdout, requests>>

\* get_records_to_file: the stream ends, get_records returns, and the file
\* is created and written.
GetRecordsToFileEnd ==
    /\ pc = "reading"
    /\ op = "get_records_to_file"
    /\ nread = Len(chunks)
    /\ \E io \in IoOutcomes(data) :
         LET end == ToFileOnEnd(data, file, io)
         IN ret' = end.ret /\ file' = end.file
    /\ pc' = "done"
    /\ UNCHANGED <<args, op, ty, status_code, chunks, nread, last_response, data, stdout, requests>>

\* RetrieveParams::new(symbols, start, end, schema)
RetrieveParamsNewCall ==
    /\ pc = "idle"
    /\ \E start \in ParamDates, end \in ParamDates :
         /\ args' = <<start, end>>
         /\ ret' = RetrieveParams_new(start, end)
    /\ op' = "RetrieveParams_new"
    /\ ty' = "RetrieveParams"
    /\ pc' = "done"
    /\ UNCHANGED <<file, status_code, chunks, nread, last_response, data, stdout, requests>>

Next ==
    \/ RetrieveParamsNewCall
    \/ SendToFile
    \/ SendToFileFails
    \/ GetRecordsToFileChunk
    \/ GetRecordsToFileEnd
    \/ DateToUnixNanosCall
    \/ NewCall
    \/ WithDefaultCall
    \/ Send
    \/ SendFails
    \/ FromResponse
    \/ HistoricalCall
    \/ CreateBacktestChunk
    \/ CreateBacktestEnd
    \/ GetRecordsChunk
    \/ GetRecordsEnd
    \/ CreateMbpFromFileChunk
    \/ CreateMbpFromFileEnd

Spec == Init /\ [][Next]_vars

\* A call is one async task that the runtime polls until it returns: a step
\* that can be taken is taken.
FairSpec == Spec /\ WF_vars(Next)

\* -------------------------------------------------------- concurrent calls
\* Two streamed calls in flight on one client (or on clones of it): every
\* variable of a call becomes a function of the call, and the steps of the
\* calls interleave freely.
ConcMaxChunks == 2
CallIds == {1, 2}
ConcOps == {"create_backtest", "get_records"}
ConcAlphabet ==
    {Chunk(to_string(FragS1)), Chunk(to_string(FragS2)), Chunk(to_string(FragFailed)),
     TransportError}
ConcStreams == SeqsUpTo(ConcAlphabet, ConcMaxChunks)

\* Mutant of StoreOf: every call keeps its locals where call 1 does.
StoreOf_Shared(c) == 1

\* Whose last_response and data a call's loop reads and writes: they are
\* locals of the call's own future.
StoreOf(c) == c

ConcInit ==
    /\ pc = [c \in CallIds |-> "idle"]
    /\ op = [c \in CallIds |-> ""]
    /\ ty = [c \in CallIds |-> ""]
    /\ status_code = [c \in CallIds |-> 0]
    /\ chunks = [c \in CallIds |-> <<>>]
    /\ nread = [c \in CallIds |-> 0]
    /\ last_response = [c \in CallIds |-> <<>>]
    /\ data = [c \in CallIds |-> <<>>]
    /\ stdout = <<>>
    /\ requests = 0
    /\ args = <<>>
    /\ file = NoFile
    /\ ret = [c \in CallIds |-> Pending]

\* Call c: send().await returns a 200 response, and the call's locals are
\* created empty.
ConcSend(c) ==
    /\ pc[c] = "idle"
    /\ \E o \in ConcOps, cs \in ConcStreams :
         /\ op' = [op EXCEPT ![c] = o]
         /\ ty' = [ty EXCEPT ![c] = PayloadType(o)]
         /\ chunks' = [chunks EXCEPT ![c] = cs]
         /\ pc' = [pc EXCEPT ![c] = AfterSend(o, OK)]
    /\ status_code' = [status_code EXCEPT ![c] = OK]
    /\ last_response' = [last_response EXCEPT ![StoreOf(c)] = <<>>]
    /\ data' = [data EXCEPT ![StoreOf(c)] = <<>>]
    /\ requests' = requests + 1
    /\ UNCHANGED <<file, nread, stdout, args, ret>>

\* Call c is create_backtest and its stream delivers a chunk.
ConcCreateBacktestChunk(c) ==
    /\ pc[c] = "reading"
    /\ op[c] = "create_backtest"
    /\ nread[c] < Len(chunks[c])
    /\ LET step == BacktestOnChunk(last_response[StoreOf(c)], chunks[c][nread[c] + 1])
       IN /\ pc' = [pc EXCEPT ![c] = step.pc]
          /\ ret' = [ret EXCEPT ![c] = step.ret]
          /\ last_response' = [last_response EXCEPT ![StoreOf(c)] = step.last]
    /\ nread' = [nread EXCEPT ![c] = nread[c] + 1]
    /\ UNCHANGED <<file, op, ty, status_code, chunks, data, stdout, requests, args>>

\* Call c is create_backtest and its stream ends.
ConcCreateBacktestEnd(c) ==
    /\ pc[c] = "reading"
    /\ op[c] = "create_backtest"
    /\ nread[c] = Len(chunks[c])
    /\ ret' = [ret EXCEPT ![c] = BacktestOnEnd(last_response[StoreOf(c)])]
    /\ pc' = [pc EXCEPT ![c] = "done"]
    /\ UNCHANGED <<file, op, ty, status_code, chunks, nread, last_response, data, stdout, requests, args>>

\* Call c is get_records and its stream delivers a chunk.
ConcGetRecordsChunk(c) ==
    /\ pc[c] = "reading"
    /\ op[c] = "get_records"
    /\ nread[c] < Len(chunks[c])
    /\ LET step == RecordsOnChunk(data[StoreOf(c)], chunks[c][nread[c] + 1])
       IN /\ pc' = [pc EXCEPT ![c] = step.pc]
          /\ ret' = [ret EXCEPT ![c] = step.ret]
          /\ data' = [data EXCEPT ![StoreOf(c)] = step.data]
    /\ nread' = [nread EXCEPT ![c] = nread[c] + 1]
    /\ UNCHANGED <<file, op, ty, status_code, chunks, last_response, stdout, requests, args>>

\* Call c is get_records and its stream ends.
ConcGetRecordsEnd(c) ==
    /\ pc[c] = "reading"
    /\ op[c] = "get_records"
    /\ nread[c] = Len(chunks[c])
    /\ ret' = [ret EXCEPT ![c] = RecordsOnEnd(data[StoreOf(c)])]
    /\ pc' = [pc EXCEPT ![c] = "done"]
    /\ UNCHANGED <<file, op, ty, status_code, chunks, nread, last_response, data, stdout, requests, args>>

ConcNext ==
    \E c \in CallIds :
        \/ ConcSend(c)
        \/ ConcCreateBacktestChunk(c)
        \/ ConcCreateBacktestEnd(c)
        \/ ConcGetRecordsChunk(c)
        \/ ConcGetRecordsEnd(c)

ConcSpec == ConcInit /\ [][ConcNext]_vars

\* ================================================================== claims
\* The envelopes a well-formed stream chunk can carry, and what it is for a
\* chunk to carry one.
StreamFragments == {FragS1, FragS2, FragFailed, FragOther}
IsFragment(c, f) == c.ok /\ c.bytes = to_string(f)
SuccessChunk(c) == \E f \in StreamFragments : f.status = "success" /\ IsFragment(c, f)
AllSuccessBefore(i) == \A j \in 1..(i - 1) : SuccessChunk(chunks[j])
\* create_backtest has entered its stream loop (HTTP 200).
InBacktestLoop == op = "create_backtest" /\ status_code = OK /\ pc \in {"reading", "done"}
\* A call that ends in from_response has returned.
FromResponseDone ==
    /\ pc = "done"
    /\ status_code # 0
    /\ (\/ op \in TradingOps \cup {"from_response"}
        \/ (op = "create_backtest" /\ status_code # OK))

\* C1: in create_backtest's stream loop, when every chunk before chunk i is a
\* success fragment and chunk i is a fragment whose status is not exactly
\* "success", no chunk after i is ever read, and the call returns Ok of
\* fragment i unchanged, whatever the later chunks are.
C1_FailFast ==
    \A i \in 1..Len(chunks) : \A f \in StreamFragments :
        (InBacktestLoop /\ AllSuccessBefore(i) /\ IsFragment(chunks[i], f)
            /\ f.status # "success")
        => /\ nread <= i
           /\ (pc = "done" => (ret = Ok(f) /\ nread = i))

\* The stream [success, failed, success] has returned the failed fragment
\* after two chunks.
C1_Witness ==
    /\ InBacktestLoop /\ pc = "done"
    /\ chunks = <<Chunk(to_string(FragS1)), Chunk(to_string(FragFailed)), Chunk(to_string(FragS1))>>
    /\ ret = Ok(FragFailed)
    /\ nread = 2

\* C2: when every chunk of a non-empty stream is a success fragment and the
\* stream ends cleanly, create_backtest returns Ok of the fragment of the
\* last chunk.
C2_LastFragmentWins ==
    \A f \in StreamFragments :
        (InBacktestLoop /\ pc = "done" /\ Len(chunks) > 0
            /\ AllSuccessBefore(Len(chunks) + 1)
            /\ IsFragment(chunks[Len(chunks)], f))
        => ret = Ok(f)

\* Two different success fragments: the second is returned.
C2_Witness ==
    /\ InBacktestLoop /\ pc = "done"
    /\ chunks = <<Chunk(to_string(FragS1)), Chunk(to_string(FragS2))>>
    /\ ret = Ok(FragS2)
    /\ ret # Ok(FragS1)

\* C3: when the stream ends without any chunk, create_backtest returns Ok of
\* an envelope with status "failed", code 404 and data "", never one with
\* status "success".
C3_EmptyStream ==
    (InBacktestLoop /\ pc = "done" /\ chunks = <<>>)
    => /\ ret.kind = "Ok"
       /\ ret.val.status = "failed"
       /\ ret.val.code = 404
       /\ ret.val.data = DString("")
       /\ ret.val.status # "success"

C3_Witness ==
    /\ InBacktestLoop /\ pc = "done" /\ chunks = <<>>
    /\ nread = 0
    /\ ret.kind = "Ok" /\ ret.val.code = 404

\* C4: from_response on the JSON encoding of an envelope e of its payload
\* type returns Ok(e): status, message, code and data are those of e (so the
\* data is e's, not the default the fallback would put there).
C4_StrictRoundTrip ==
    FromResponseDone =>
        \A e \in Envelopes(ty) : chunks = <<Chunk(to_string(e))>> => ret = Ok(e)

\* An envelope whose data is not the zero value has been decoded.
C4_Witness ==
    /\ FromResponseDone
    /\ \E e \in Envelopes(ty) :
          /\ chunks = <<Chunk(to_string(e))>>
          /\ e.data # default_value(ty)
          /\ ret = Ok(e)

\* C5: from_response on a body that has status, message and code and no data
\* key returns Ok of an envelope with that status, message and code and the
\* payload type's zero value as data.
C5_FallbackDefault ==
    \A st \in {"success", "failed"}, c \in {200, 404} :
        (FromResponseDone
            /\ chunks = <<Chunk(<<Doc(JObj(JStr(st), JStr("m1"), JNum(c), JAbsent))>>)>>)
        => ret = Ok(ApiResponse(st, "m1", c, default_value(ty)))

\* {status: "failed", message, code: 404} decoded at a type for which a
\* missing data key is an error of the strict decode.
C5_Witness ==
    /\ FromResponseDone
    /\ ty = "String"
    /\ chunks = <<Chunk(<<Doc(JObj(JStr("failed"), JStr("m1"), JNum(404), JAbsent))>>)>>
    /\ ret = Ok(ApiResponse("failed", "m1", 404, DString("")))

\* Bodies that are no JSON object at all.
NotAnObject(body) ==
    body \in {<<>>, <<Scalar>>, <<Raw(InvalidByte)>>, <<HeadOf(HalfObject)>>,
              to_string(FragS1) \o to_string(FragS2)}
\* An object that has no status, message or code of the envelope's types.
NoHeader(o) ==
    \/ o.status.t # "str"
    \/ o.message.t # "str"
    \/ o.code.t # "num"
    \/ o.code.n < 0
    \/ o.code.n > 65535

\* C6: from_response on a body, read in full, that is not one JSON object
\* (or array), or is one without a usable status, message or code, returns
\* the decode error JsonError, and no Ok envelope.
C6_Rejection ==
    (/\ FromResponseDone
     /\ Len(chunks) = 1
     /\ chunks[1].ok
     /\ (\/ NotAnObject(chunks[1].bytes)
         \/ (/\ Len(chunks[1].bytes) = 1
             /\ chunks[1].bytes[1].k \in {"doc", "array"}
             /\ NoHeader(chunks[1].bytes[1].obj))))
    => ret = Err("JsonError")

\* A body without a status key has been rejected.
C6_Witness ==
    /\ FromResponseDone
    /\ chunks = <<Chunk(<<Doc(JObj(JAbsent, JStr("m1"), JNum(200), JStr("d1")))>>)>>
    /\ ret = Err("JsonError")

\* C7: create_mbp_from_file returns the aggregate envelope of the streamed
\* fragments: status "failed" when the first fragment that is not a success
\* is a failed one, status "success" when every fragment is a success.
C7_BulkUploadAggregate ==
    (op = "create_mbp_from_file" /\ pc = "done" /\ Len(chunks) > 0)
    => /\ ((\E i \in 1..Len(chunks) :
               AllSuccessBefore(i) /\ IsFragment(chunks[i], FragFailed))
           => (ret.kind = "Ok" /\ ret.val.status = "failed"))
       /\ (AllSuccessBefore(Len(chunks) + 1)
           => (ret.kind = "Ok" /\ ret.val.status = "success"))

\* The zero value of a single-shot call's payload type.
ZeroValue(T) ==
    CASE T = "i32" -> DI32(0)
      [] T = "u32" -> DU32(0)
      [] T = "String" -> DString("")
      [] T = "Vec" -> DVec(0)
      [] T = "Option" -> DNone
      [] T = "unit" -> DUnit

\* C8: a single-shot CRUD call whose response has status, message and code
\* and no data returns Ok of an envelope with that status and code and the
\* zero value as data.
C8_CrudNonThrowing ==
    \A st \in {"success", "failed"}, c \in {200, 404} :
        (pc = "done" /\ op \in TradingOps \cup HistoricalOps
            /\ chunks = <<Chunk(<<Doc(JObj(JStr(st), JStr("m1"), JNum(c), JAbsent))>>)>>)
        => ret = Ok(ApiResponse(st, "m1", c, ZeroValue(ty)))

\* Chunks that arrive intact and are no envelope of the stream.
UndecodableChunks ==
    {Chunk(<<Doc(NoDataFailed)>>), Chunk(<<HeadOf(HalfObject)>>),
     Chunk(<<TailOf(HalfObject)>>), Chunk(<<Raw(InvalidByte)>>),
     Chunk(to_string(FragS1) \o to_string(FragS2))}

\* C9: in create_backtest's stream loop, when every chunk before chunk i is
\* a success fragment and chunk i arrives intact and cannot be decoded, no
\* chunk after i is read and the call returns the decode error JsonError:
\* not an Ok envelope, and not the success fragment recorded before.
C9_StreamDecodeFailure ==
    \A i \in 1..Len(chunks) :
        (InBacktestLoop /\ AllSuccessBefore(i) /\ chunks[i] \in UndecodableChunks)
        => /\ nread <= i
           /\ (pc = "done" => (ret = Err("JsonError") /\ nread = i))

\* A success fragment was recorded, then a malformed chunk ended the call.
C9_Witness ==
    /\ InBacktestLoop /\ pc = "done"
    /\ chunks = <<Chunk(to_string(FragS1)), Chunk(<<Raw(InvalidByte)>>), Chunk(to_string(FragS2))>>
    /\ last_response = <<FragS1>>
    /\ ret = Err("JsonError")
    /\ nread = 2

\* The stream loop of one of the three stream-consuming operations.
InStreamLoop ==
    /\ op \in StreamOps
    /\ pc \in {"reading", "done"}
    /\ status_code # 0
    /\ (op = "create_backtest" => status_code = OK)

\* C10: in each stream-consuming operation, when the loop reaches chunk i and
\* the transport fails to read it, no later chunk is read and the call
\* returns RequestError, which is not the JsonError of a malformed chunk.
C10_StreamTransportFailure ==
    \A i \in 1..Len(chunks) :
        (/\ InStreamLoop
         /\ ~chunks[i].ok
         /\ (\A j \in 1..(i - 1) : chunks[j].ok)
         /\ (op = "create_backtest" => AllSuccessBefore(i)))
        => /\ nread <= i
           /\ (pc = "done" =>
                (ret.kind = "Err" /\ ret.err = "RequestError" /\ ret.err # "JsonError"
                    /\ nread = i))

\* Each of the three operations has ended on a transport error that came
\* after a chunk was read; here get_records.
C10_Witness ==
    /\ InStreamLoop /\ pc = "done"
    /\ op = "get_records"
    /\ chunks = <<Chunk(to_string(FragS1)), TransportError, Chunk(to_string(FragS2))>>
    /\ data = to_string(FragS1)
    /\ ret = Err("RequestError")
    /\ nread = 2

\* get_records has received a response and is in, or past, its loop.
InRecordsLoop == op = "get_records" /\ status_code # 0 /\ pc \in {"reading", "done"}

\* C11: get_records returns an Ok envelope only when every chunk up to the
\* end of the stream was read without error; when the transport fails after
\* k >= 0 chunks the call returns an error, and the buffer of those k chunks
\* is in no envelope.
C11_NoPartialDownload ==
    (InRecordsLoop /\ pc = "done")
    => /\ (ret.kind = "Ok" =>
            (nread = Len(chunks) /\ \A i \in 1..Len(chunks) : chunks[i].ok))
       /\ ((\E i \in 1..Len(chunks) : ~chunks[i].ok) =>
            (ret.kind = "Err" /\ ret.val = NoResponse))

\* The transport failed after one chunk had been put in the buffer.
C11_Witness ==
    /\ InRecordsLoop /\ pc = "done"
    /\ chunks = <<Chunk(<<Raw(InvalidByte)>>), TransportError>>
    /\ data = <<Raw(InvalidByte)>>
    /\ ret.kind = "Err"

\* The bytes of chunks 1..n one after the other, written out from the last
\* chunk backwards.
RECURSIVE BytesInOrder(_, _)
BytesInOrder(cs, n) == IF n = 0 THEN <<>> ELSE BytesInOrder(cs, n - 1) \o cs[n].bytes

\* C12: when the stream ends cleanly, get_records returns status "success",
\* message "", code 200 and as data the chunks' bytes in arrival order,
\* byte for byte (nothing decoded, nothing replaced); while it reads, the
\* buffer holds the bytes of the chunks read so far.
C12_PayloadAssembly ==
    InRecordsLoop
    => /\ ((\A i \in 1..nread : chunks[i].ok) => data = BytesInOrder(chunks, nread))
       /\ ((pc = "done" /\ \A i \in 1..Len(chunks) : chunks[i].ok)
            => ret = Ok(ApiResponse("success", "", 200,
                                    DSomeBytes(BytesInOrder(chunks, Len(chunks))))))

\* Three different chunks, one of them not UTF-8, returned in order.
C12_Witness ==
    /\ InRecordsLoop /\ pc = "done"
    /\ chunks = <<Chunk(to_string(FragS1)), Chunk(<<Raw(InvalidByte)>>), Chunk(to_string(FragS2))>>
    /\ ret.kind = "Ok"
    /\ ret.val.data.b = to_string(FragS1) \o <<Raw(InvalidByte)>> \o to_string(FragS2)

\* The three terminal outcomes of the stream accumulator, told from what was
\* read and what was returned.  Terminated: the last chunk read is a
\* fragment that is not a success, and it is what was returned.
Terminated ==
    /\ ret.kind = "Ok"
    /\ nread >= 1
    /\ AllSuccessBefore(nread)
    /\ ret.val.status # "success"
    /\ IsFragment(chunks[nread], ret.val)
\* Completed: the stream was read to its end, every chunk a success fragment,
\* and the last of them (or, of an empty stream, a failed envelope) returned.
Completed ==
    /\ ret.kind = "Ok"
    /\ nread = Len(chunks)
    /\ AllSuccessBefore(nread + 1)
    /\ IF nread = 0 THEN ret.val.status = "failed"
       ELSE IsFragment(chunks[nread], ret.val)
\* Failed: the last chunk read could not be read or is no fragment.
Failed ==
    /\ ret.kind = "Err"
    /\ nread >= 1
    /\ AllSuccessBefore(nread)
    /\ \A f \in StreamFragments : ~IsFragment(chunks[nread], f)
Outcomes == (IF Terminated THEN 1 ELSE 0) + (IF Completed THEN 1 ELSE 0) + (IF Failed THEN 1 ELSE 0)

\* C13: create_backtest's stream loop, on every chunk sequence, eventually
\* returns; it has then reached exactly one of Terminated, Completed and
\* Failed, and none before; and once it has returned no chunk is consumed
\* and what was returned does not change.
C13_OneTerminalOutcome ==
    /\ [](InBacktestLoop => <>(pc = "done"))
    /\ []((InBacktestLoop /\ pc = "done") => Outcomes = 1)
    /\ []((InBacktestLoop /\ pc = "reading") => ret = Pending)
    /\ [][pc = "done" => (pc' = "done" /\ ret' = ret /\ nread' = nread)]_vars

\* One stream for each outcome can be named; here the call was Terminated
\* with a chunk left unread.
C13_Witness ==
    /\ InBacktestLoop /\ pc = "done"
    /\ Terminated /\ ~Completed /\ ~Failed
    /\ nread < Len(chunks)

\* A call that decodes one body in a single shot has returned.
SingleShotDone ==
    /\ pc = "done"
    /\ status_code # 0
    /\ (\/ op \in TradingOps \cup HistoricalOps \cup {"from_response"}
        \/ (op = "create_backtest" /\ status_code # OK))
\* A call whose stream carries envelopes has returned.
EnvelopeStreamDone ==
    /\ pc = "done"
    /\ status_code # 0
    /\ (\/ op = "create_mbp_from_file"
        \/ (op = "create_backtest" /\ status_code = OK))

\* C14: a body that is a complete envelope with status "failed" makes a
\* single-shot call return Ok of that envelope; a failed fragment that
\* follows success fragments only makes a streamed call return Ok of an
\* envelope with the fragment's status, message and code; and a call
\* returns an error only when the transport or the decoder failed.
C14_DomainFailuresAreReturns ==
    /\ (SingleShotDone =>
          \A e \in Envelopes(ty) :
              (e.status = "failed" /\ chunks = <<Chunk(to_string(e))>>) => ret = Ok(e))
    /\ (EnvelopeStreamDone =>
          \A i \in 1..Len(chunks) :
              (AllSuccessBefore(i) /\ IsFragment(chunks[i], FragFailed))
              => /\ ret.kind = "Ok"
                 /\ ret.val.status = FragFailed.status
                 /\ ret.val.message = FragFailed.message
                 /\ ret.val.code = FragFailed.code)
    /\ (ret.kind = "Err" => ret.err \in {"RequestError", "JsonError"})

\* The stream accumulator run alone on a chunk sequence, from chunk i on.
RECURSIVE Accumulate(_, _, _)
Accumulate(cs, i, last) ==
    IF i > Len(cs) THEN BacktestOnEnd(last)
    ELSE LET step == BacktestOnChunk(last, cs[i])
         IN IF step.pc = "done" THEN step.ret ELSE Accumulate(cs, i + 1, step.last)

\* C15: a Trading single-shot call returns from_response's result on the
\* body under either HTTP status; create_backtest on a status other than 200
\* never reads a chunk of the stream and returns from_response's result on
\* the body; on 200 it never reads the body as text and returns what the
\* stream accumulator gives on the chunks.
C15_StatusDoesNotDecide ==
    /\ ((op \in TradingOps /\ status_code # 0)
        => /\ pc # "reading"
           /\ nread = 0
           /\ (pc = "done" => ret = from_response(ty, chunks)))
    /\ ((op = "create_backtest" /\ status_code \notin {0, OK})
        => /\ pc # "reading"
           /\ nread = 0
           /\ last_response = <<>>
           /\ (pc = "done" => ret = from_response("String", chunks)))
    /\ ((op = "create_backtest" /\ status_code = OK)
        => /\ pc # "text"
           /\ (pc = "done" => ret = Accumulate(chunks, 1, <<>>)))

\* create_backtest answered 404 with a failed envelope as its body.
C15_Witness ==
    /\ op = "create_backtest" /\ status_code = NOT_FOUND /\ pc = "done"
    /\ chunks = <<Chunk(to_string(ApiResponse("failed", "m1", 404, DString("d1"))))>>
    /\ ret = Ok(ApiResponse("failed", "m1", 404, DString("d1")))
    /\ nread = 0

\* C16: with_default(status, message, code) returns an envelope with the
\* status, message and code it was given and, as data, the zero value of
\* T: the number 0 for i32 and u32, the empty string for String, the
\* sequence of length 0 for Vec, None for Option.
C16_WithDefaultZero ==
    (op = "with_default" /\ pc = "done")
    => /\ ret.kind = "Value"
       /\ ret.val.status = args[1]
       /\ ret.val.message = args[2]
       /\ ret.val.code = args[3]
       /\ ret.val.data.ty = ty
       /\ (ty \in {"i32", "u32"} => ret.val.data.n = 0)
       /\ (ty = "String" => ret.val.data.s = "")
       /\ (ty = "Vec" => ret.val.data.n = 0)
       /\ (ty = "Option" => ~ret.val.data.some)

\* with_default for an Option payload, with arguments that name no response
\* the server sends.
C16_Witness ==
    /\ op = "with_default" /\ pc = "done" /\ ty = "Option"
    /\ args = <<"Success", "", 65535>>
    /\ ret = Value(ApiResponse("Success", "", 65535, DNone))

\* C17: new(status, message, code, data) returns an envelope whose status,
\* message and data are the arguments as given, whatever they are, and
\* whose code is the number of the StatusCode given: 200 for OK.
C17_DirectConstruction ==
    (op = "new" /\ pc = "done")
    => /\ ret.kind = "Value"
       /\ ret.val.status = args[1]
       /\ ret.val.message = args[2]
       /\ \A n \in {100, 200, 404, 999} : (args[3] = [u16 |-> n] => ret.val.code = n)
       /\ ret.val.code \in {100, 200, 404, 999}
       /\ ret.val.data = args[4]

\* new with a status that is not one the server sends, an empty message,
\* NOT_FOUND and a negative number.
C17_Witness ==
    /\ op = "new" /\ pc = "done"
    /\ args = <<"Success", "", StatusCode(NOT_FOUND), DI32(-1)>>
    /\ ret = Value(ApiResponse("Success", "", 404, DI32(-1)))

\* The call is one of the client's operations (it sends a request).
IsClientCall == op \in TradingOps \cup HistoricalOps \cup StreamOps
\* Exactly one request has been sent by a call that has started, none before.
OneRequest ==
    /\ (pc = "idle" => requests = 0)
    /\ ((IsClientCall /\ pc # "idle") => requests = 1)

\* C18: every operation sends exactly one request per call, and a failure is
\* what the call returns: the transport's error when send() or a chunk
\* fails, the decoder's error when a body or a chunk cannot be decoded, and
\* Ok of the failed envelope when the body, or the first fragment that is
\* not a success, is an envelope with status "failed".
C18_NoInternalRetries ==
    /\ OneRequest
    /\ ((IsClientCall /\ pc = "done" /\ status_code = 0) => ret = Err("RequestError"))
    /\ ((InStreamLoop /\ pc = "done" /\ nread >= 1 /\ ~chunks[nread].ok)
        => ret = Err("RequestError"))
    /\ ((InBacktestLoop /\ pc = "done" /\ nread >= 1 /\ chunks[nread] \in UndecodableChunks)
        => ret = Err("JsonError"))
    /\ ((SingleShotDone /\ IsClientCall /\ NotAnObject(Concat(chunks)) /\ \A i \in 1..Len(chunks) : chunks[i].ok)
        => ret = Err("JsonError"))
    /\ (SingleShotDone =>
          \A c \in {200, 404}, d \in DataValues(ty) :
              chunks = <<Chunk(to_string(ApiResponse("failed", "m1", c, d)))>>
              => ret = Ok(ApiResponse("failed", "m1", c, d)))
    /\ ((EnvelopeStreamDone /\ nread >= 1 /\ AllSuccessBefore(nread)
            /\ IsFragment(chunks[nread], FragFailed))
        => ret = Ok(FragFailed))

\* get_records run alone on a chunk sequence, from chunk i on.
RECURSIVE Download(_, _, _)
Download(cs, i, buf) ==
    IF i > Len(cs) THEN RecordsOnEnd(buf)
    ELSE LET step == RecordsOnChunk(buf, cs[i])
         IN IF step.pc = "done" THEN step.ret ELSE Download(cs, i + 1, step.data)
\* What a streamed call returns when it runs alone on its chunks.
Alone(o, cs) ==
    IF o = "create_backtest" THEN Accumulate(cs, 1, <<>>) ELSE Download(cs, 1, <<>>)

\* C19: with the chunk arrivals of two streamed calls interleaved in any
\* order, a call that has returned has returned what it returns when run
\* alone on its own chunks; and a step that is not a step of call c leaves
\* c's last_response, buffer and return value as they were.
C19_ConcurrentIndependence ==
    /\ [](\A c \in CallIds : (pc[c] = "done" => ret[c] = Alone(op[c], chunks[c])))
    /\ [][\A c \in CallIds :
            (pc'[c] = pc[c] /\ nread'[c] = nread[c])
            => (last_response'[c] = last_response[c] /\ data'[c] = data[c] /\ ret'[c] = ret[c])]_vars

\* Call 1 has returned its own fragment while call 2, one chunk into its
\* stream, holds another.
C19_Witness ==
    /\ op[1] = "create_backtest" /\ op[2] = "create_backtest"
    /\ chunks[1] = <<Chunk(to_string(FragS1))>>
    /\ chunks[2] = <<Chunk(to_string(FragS2)), Chunk(to_string(FragS1))>>
    /\ pc[1] = "done" /\ ret[1] = Ok(FragS1)
    /\ pc[2] = "reading" /\ nread[2] = 1 /\ last_response[2] = <<FragS2>>

\* A date string read by position: YYYY-MM-DD, then HH:MM:SS after a space.
DigitsAt(str, positions) == \A i \in positions : IsDigit(str[i])
TwoDigits(str, i) == 10 * DigitValue(str[i]) + DigitValue(str[i + 1])
YearOf(str) == 100 * TwoDigits(str, 1) + TwoDigits(str, 3)
MonthOf(str) == TwoDigits(str, 6)
DayOf(str) == TwoDigits(str, 9)
SecondOfDay(str) == 3600 * TwoDigits(str, 12) + 60 * TwoDigits(str, 15) + TwoDigits(str, 18)
\* The calendar, by the lengths of the months.
MonthLengths(y) ==
    <<31, IF y % 4 = 0 /\ (y % 100 # 0 \/ y % 400 = 0) THEN 29 ELSE 28,
      31, 30, 31, 30, 31, 31, 30, 31, 30, 31>>
RECURSIVE DaysBeforeMonth(_, _)
DaysBeforeMonth(y, m) ==
    IF m = 1 THEN 0 ELSE DaysBeforeMonth(y, m - 1) + MonthLengths(y)[m - 1]
\* The days from 0000-01-01 to the first day of year y.
DaysBeforeYear(y) ==
    IF y = 0 THEN 0
    ELSE 365 * y + ((y - 1) \div 4) - ((y - 1) \div 100) + ((y - 1) \div 400) + 1
\* The days from 1970-01-01 to the date.
EpochDay(y, m, d) == DaysBeforeYear(y) - DaysBeforeYear(1970) + DaysBeforeMonth(y, m) + d - 1
\* A 10-character YYYY-MM-DD string that names a day of the calendar.
IsDateForm(str) ==
    /\ Len(str) = 10
    /\ DigitsAt(str, {1, 2, 3, 4, 6, 7, 9, 10})
    /\ str[5] = "-" /\ str[8] = "-"
    /\ MonthOf(str) \in 1..12
    /\ DayOf(str) \in 1..MonthLengths(YearOf(str))[MonthOf(str)]
\* A YYYY-MM-DD HH:MM:SS string that names a second of a day.
IsDateTimeForm(str) ==
    /\ Len(str) = 19
    /\ IsDateForm(SubSeq(str, 1, 10))
    /\ str[11] = " " /\ str[14] = ":" /\ str[17] = ":"
    /\ DigitsAt(str, {12, 13, 15, 16, 18, 19})
    /\ TwoDigits(str, 12) <= 23 /\ TwoDigits(str, 15) <= 59 /\ TwoDigits(str, 18) <= 59
\* Midnight UTC of the date, and the instant of the date and time, in
\* nanoseconds since the epoch: epoch seconds times 10^9.
Midnight(str) == Nanos(EpochDay(YearOf(str), MonthOf(str), DayOf(str)), 0, 0)
Instant(str) == Nanos(EpochDay(YearOf(str), MonthOf(str), DayOf(str)), SecondOfDay(str), 0)
\* The whole seconds whose nanosecond count fits a signed 64-bit integer:
\* 1677-09-21 00:12:44 to 2262-04-11 23:47:16.
FitsI64(n) ==
    /\ NanosLeq(Nanos(EpochDay(1677, 9, 21), 764, 0), n)
    /\ NanosLeq(n, Nanos(EpochDay(2262, 4, 11), 85636, 0))
DateCallDone == op = "date_to_unix_nanos" /\ pc = "done"

GoodChunks == IF nread >= 1 /\ ~SuccessChunk(chunks[nread]) THEN nread - 1 ELSE nread

\* C21: in every state of create_backtest's stream loop last_response holds
\* at most one fragment; it is empty exactly when no chunk has been
\* consumed as a success fragment; otherwise it holds the fragment decoded
\* from the last chunk so consumed, and that fragment's status is "success".
C21_LastKnownGood ==
    InBacktestLoop
    => /\ Len(last_response) <= 1
       /\ (last_response = <<>> <=> GoodChunks = 0)
       /\ (pc = "reading" => GoodChunks = nread)
       /\ (GoodChunks >= 1
           => /\ IsFragment(chunks[GoodChunks], last_response[1])
              /\ last_response[1].status = "success")

\* Two success fragments have been read and the loop goes on: the second
\* has taken the first one's place.
C21_Witness ==
    /\ InBacktestLoop /\ pc = "reading" /\ nread = 2 /\ Len(chunks) = 3
    /\ chunks[1] = Chunk(to_string(FragS1)) /\ chunks[2] = Chunk(to_string(FragS2))
    /\ last_response = <<FragS2>>

\* C22: when create_backtest's stream ends and no success fragment was
\* seen, the envelope returned has the message "no valid response received".
C22_SynthesizedMessage ==
    (InBacktestLoop /\ pc = "done" /\ ret.kind = "Ok" /\ nread = Len(chunks)
        /\ last_response = <<>>)
    => ret.val.message = "no valid response received"

\* C23: get_records, when every chunk of the body was read, returns Ok of an
\* envelope with status "success" and code 200 under either HTTP status and
\* whatever the body is; a failed envelope sent as the body is the data of
\* that success envelope.
C23_RecordsAlwaysSuccess ==
    (InRecordsLoop /\ pc = "done" /\ \A i \in 1..Len(chunks) : chunks[i].ok)
    => /\ ret.kind = "Ok"
       /\ ret.val.status = "success"
       /\ ret.val.code = 200
       /\ ret.val.data.some
       /\ (chunks = <<Chunk(to_string(FragFailed))>>
           => ret.val.data.b = to_string(FragFailed))

\* The server answered 404 with a failed envelope, and get_records returned
\* success with the envelope's text as the download.
C23_Witness ==
    /\ InRecordsLoop /\ pc = "done" /\ status_code = NOT_FOUND
    /\ chunks = <<Chunk(to_string(FragFailed))>>
    /\ ret = Ok(ApiResponse("success", "", 200, DSomeBytes(to_string(FragFailed))))

\* JSON data that is not of the payload type T.
WrongType(T, j) ==
    CASE T = "String" -> j.t # "str"
      [] T \in {"i32"} -> j.t # "num"
      [] T = "u32" -> (j.t # "num" \/ j.n < 0)
      [] T = "Vec" -> j.t # "arr"
      [] T = "Option" -> j.t \notin {"absent", "null", "num"}
\* The data a body can carry.
BodyData == {JAbsent, JNull, JStr("d1"), JStr(""), JNum(7), JNum(0), JNum(-1), JArr(2), JArr(0)}

\* C24: from_response on a body with status "success", a message and a
\* code, whose data is absent or is not of the type T, returns Ok of an
\* envelope with status "success", that message and code, and T's zero
\* value as data: what the body carried as data is gone.
C24_DefaultValuedSuccess ==
    FromResponseDone =>
        \A c \in {200, 404}, j \in BodyData :
            (/\ chunks = <<Chunk(<<Doc(JObj(JStr("success"), JStr("m1"), JNum(c), j))>>)>>
             /\ (j.t = "absent" \/ WrongType(ty, j)))
            => ret = Ok(ApiResponse("success", "m1", c, ZeroValue(ty)))

\* A success body whose data is a string, decoded as an i32 payload: the
\* caller gets success with the number 0.
C24_Witness ==
    /\ FromResponseDone /\ ty = "i32"
    /\ chunks = <<Chunk(<<Doc(JObj(JStr("success"), JStr("m1"), JNum(200), JStr("d1")))>>)>>
    /\ ret = Ok(ApiResponse("success", "m1", 200, DI32(0)))

\* A chunk that is one JSON object with status, message and code and no
\* data key.
NoDataChunk(c) ==
    /\ c.ok
    /\ Len(c.bytes) = 1
    /\ c.bytes[1].k = "doc"
    /\ ~NoHeader(c.bytes[1].obj)
    /\ c.bytes[1].obj.data.t = "absent"

\* C25: in create_backtest's stream loop a chunk with status, message and
\* code and no data, reached after success fragments only, ends the call
\* with the decode error JsonError, whatever its status; the same bytes as
\* the body of a from_response call give Ok of an envelope with that
\* status, message and code and default data.
C25_NoStreamFallback ==
    /\ \A i \in 1..Len(chunks) :
          (InBacktestLoop /\ pc = "done" /\ AllSuccessBefore(i) /\ NoDataChunk(chunks[i]))
          => (ret = Err("JsonError") /\ nread = i)
    /\ ((FromResponseDone /\ Len(chunks) = 1 /\ NoDataChunk(chunks[1]))
        => ret = Ok(ApiResponse(chunks[1].bytes[1].obj.status.s,
                                chunks[1].bytes[1].obj.message.s,
                                chunks[1].bytes[1].obj.code.n, ZeroValue(ty))))

\* A failed envelope without data, after a success fragment, has ended the
\* stream with a decode error.
C25_Witness ==
    /\ InBacktestLoop /\ pc = "done"
    /\ chunks = <<Chunk(to_string(FragS1)), Chunk(<<Doc(NoDataFailed)>>)>>
    /\ nread = 2
    /\ ret = Err("JsonError")
    /\ from_response("String", <<Chunk(<<Doc(NoDataFailed)>>)>>) = Ok(ApiResponse("failed", "m", 404, DString("")))

\* Chunks whose boundaries are not those of one envelope: the first part of
\* an envelope, the rest of it, and two envelopes together.
MisalignedChunks ==
    {Chunk(<<HeadOf(HalfObject)>>), Chunk(<<TailOf(HalfObject)>>),
     Chunk(to_string(FragS1) \o to_string(FragS2))}

\* C26: create_backtest decodes each chunk by itself: a chunk that holds
\* part of an envelope, or two envelopes, reached after success fragments
\* only, ends the call with JsonError at that chunk; so does the stream of
\* an envelope split over two chunks, whose bytes taken together are one
\* envelope that decodes.
C26_ChunkIsFragment ==
    /\ \A i \in 1..Len(chunks) :
          (InBacktestLoop /\ pc = "done" /\ AllSuccessBefore(i) /\ chunks[i] \in MisalignedChunks)
          => (ret = Err("JsonError") /\ nread = i)
    /\ ((InBacktestLoop /\ pc = "done"
            /\ chunks = <<Chunk(<<HeadOf(HalfObject)>>), Chunk(<<TailOf(HalfObject)>>)>>)
        => /\ from_str_ApiResponse("String", from_utf8_lossy(Concat(chunks))).kind = "Ok"
           /\ ret = Err("JsonError")
           /\ last_response = <<>>)

\* One success envelope arrived in two chunks and the call failed on the
\* first of them.
C26_Witness ==
    /\ InBacktestLoop /\ pc = "done"
    /\ chunks = <<Chunk(<<HeadOf(HalfObject)>>), Chunk(<<TailOf(HalfObject)>>)>>
    /\ nread = 1
    /\ ret = Err("JsonError")

\* C27: get_records on a stream that ends without a chunk returns Ok of an
\* envelope with status "success", code 200 and Some of an empty buffer;
\* create_backtest on such a stream returns a failed envelope.
C27_EmptyDownload ==
    /\ ((InRecordsLoop /\ pc = "done" /\ chunks = <<>>)
        => /\ ret.kind = "Ok"
           /\ ret.val.status = "success"
           /\ ret.val.code = 200
           /\ ret.val.data.some
           /\ ret.val.data.b = <<>>)
    /\ ((InBacktestLoop /\ pc = "done" /\ chunks = <<>>)
        => (ret.kind = "Ok" /\ ret.val.status = "failed"))

\* get_records has returned on an empty stream.
C27_Witness ==
    /\ InRecordsLoop /\ pc = "done" /\ chunks = <<>> /\ nread = 0
    /\ ret = Ok(ApiResponse("success", "", 200, DSomeBytes(<<>>)))

\* get_records_to_file has been called; its download has failed when the
\* request or a chunk of the stream could not be read.
ToFileCall == op = "get_records_to_file" /\ pc # "idle"
DownloadFailed == status_code = 0 \/ \E i \in 1..Len(chunks) : ~chunks[i].ok
Downloaded == BytesInOrder(chunks, Len(chunks))

\* C28: get_records_to_file leaves the file as it found it while the
\* download goes on and when the download fails; whenever the download
\* succeeds the file, after the call, holds exactly the bytes downloaded.
C28_FileAfterDownload ==
    /\ ((ToFileCall /\ pc = "reading") => file = args[1])
    /\ ((ToFileCall /\ pc = "done" /\ DownloadFailed)
        => (file = args[1] /\ ret = Err("RequestError")))
    /\ ((ToFileCall /\ pc = "done" /\ ~DownloadFailed)
        => (file.exists /\ file.content = Downloaded))

\* C28, amended: the same while the download goes on and when it fails;
\* when the call returns Ok(()) the download succeeded and the file holds
\* exactly the bytes downloaded, having been created and written once;
\* when File::create or write_all fails after a download that succeeded,
\* the call returns the I/O error and the file is as it was found, or
\* holds less than the download.
C28_FileAfterCall ==
    /\ ((ToFileCall /\ pc = "reading") => file = args[1])
    /\ ((ToFileCall /\ pc = "done" /\ DownloadFailed)
        => (file = args[1] /\ ret = Err("RequestError")))
    /\ ((ToFileCall /\ pc = "done" /\ ret = OkUnit)
        => /\ ~DownloadFailed
           /\ file = File(TRUE, Downloaded, <<"create", "write">>))
    /\ ((ToFileCall /\ pc = "done" /\ ~DownloadFailed /\ ret # OkUnit)
        => /\ ret = Err("IOError")
           /\ \/ file = args[1]
              \/ /\ file.exists
                 /\ Len(file.content) < Len(Downloaded)
                 /\ file.content = SubSeq(Downloaded, 1, Len(file.content)))

\* A download of two chunks has replaced the file that was there.
C28_Witness ==
    /\ ToFileCall /\ pc = "done"
    /\ args[1].exists
    /\ chunks = <<Chunk(to_string(FragS1)), Chunk(<<Raw(InvalidByte)>>)>>
    /\ ret = OkUnit
    /\ file.content = to_string(FragS1) \o <<Raw(InvalidByte)>>

\* C29: date_to_unix_nanos returns Ok of a number or Err(ParseError) on
\* every string, dates whose nanoseconds do not fit an i64 among them, and
\* never aborts; RetrieveParams::new returns Ok or Err on every start and
\* end, and Err when one of them is not a date or does not fit.
C29_DateTotal ==
    /\ (DateCallDone => (ret.kind = "Ok" \/ ret = Err("ParseError")))
    /\ ((op = "RetrieveParams_new" /\ pc = "done")
        => /\ ret.kind \in {"Ok", "Err"}
           /\ ((\E i \in 1..2 : args[i] \notin
                    {DateStr(2021, 11, 1), DateStr(2021, 11, 1) \o <<" ">> \o TimeStr(1, 1, 1)})
               => ret = Err("ParseError")))

====
